---- MODULE Spec2Model ----
(***************************************************************************)
(* Model of kiauh/extensions/extensions_menu.py: ExtensionsMenu.           *)
(*                                                                         *)
(*   discover_extensions           scans EXTENSION_ROOT and builds the     *)
(*                                 registry self.extensions                *)
(*   bulk_install_extensions       the interactive selection loop and the  *)
(*                                 confirmation prompt                     *)
(*   _install_selected_extensions  the batch executor                      *)
(*                                                                         *)
(* An input line is represented by the sequence of its whitespace          *)
(* separated words (what strip() and split() leave of it); a dict is a     *)
(* sequence of [k, v] records in insertion order.                          *)
(***************************************************************************)
EXTENDS Integers, Sequences, FiniteSets, TLC

(* ------------------------------ bounds -------------------------------- *)

\* number of subdirectories of EXTENSION_ROOT
NPkg == 3

\* largest number of words on one input line
MaxTokens == 2

(* --------------------------- generic helpers -------------------------- *)

Range(s) == {s[n] : n \in 1..Len(s)}

RECURSIVE SeqsUpTo(_, _)
SeqsUpTo(S, n) ==
    IF n = 0 THEN {<<>>}
    ELSE LET shorter == SeqsUpTo(S, n - 1)
         IN  shorter \cup {Append(s, x) : s \in {t \in shorter : Len(t) = n - 1}, x \in S}

(* ----------------------- the packages on disk ------------------------- *)

\* the value of metadata["index"] as json.load delivers it
JsonNumber(t) == [json |-> "number", text |-> t]
JsonString(t) == [json |-> "string", text |-> t]
JsonNull      == [json |-> "null",   text |-> ""]

\* f"{metadata.get('index')}"
FStr(v) == IF v.json = "null" THEN "None" ELSE v.text

\* int(x[0]): the integer a key string denotes, or a ValueError
PyInt(s) ==
    CASE s = "1"  -> [ok |-> TRUE, value |-> 1]
      [] s = "01" -> [ok |-> TRUE, value |-> 1]
      [] s = "2"  -> [ok |-> TRUE, value |-> 2]
      [] s = "3"  -> [ok |-> TRUE, value |-> 3]
      [] OTHER    -> [ok |-> FALSE, value |-> 0]

\* directory names: the n-th entry that iterdir() yields is called DirName(n)
DirName(n) == n

\* display_name of the n-th directory's metadata; two packages may share one
DisplayNameOf(n) == IF n % 2 = 1 THEN "Klipper Backup" ELSE "Mainsail Theme"

\* a well-formed package
GoodPkg(n, idx) ==
    [name          |-> DirName(n),
     metadata_json |-> "ok",
     import        |-> "ok",
     classes       |-> {"ExtA"},
     ctor          |-> "ok",
     index         |-> idx,
     display_name  |-> DisplayNameOf(n)]

IndexValues == {JsonNumber("1"), JsonNumber("2"), JsonNumber("3")}

OddIndexValues == {JsonString("01"), JsonString("x"), JsonNull}

\* the packages with at most one defect that the n-th directory may hold
PackageChoices(n) ==
    LET g == GoodPkg(n, JsonNumber("1"))
    IN  {GoodPkg(n, idx) : idx \in IndexValues \cup OddIndexValues}
        \cup {[g EXCEPT !.metadata_json = m] :
                 m \in {"absent", "unreadable", "malformed", "no_section"}}
        \cup {[g EXCEPT !.import = "ImportError"]}
        \cup {[g EXCEPT !.classes = c] : c \in {{}, {"ExtA", "ExtB"}}}
        \cup {[g EXCEPT !.ctor = "RuntimeError"]}

\* the packages of a menu session: each loads and declares an integer index
MenuChoices(n) == {GoodPkg(n, idx) : idx \in IndexValues}

\* the directories the loader is checked on: NPkg entries in scan order
RECURSIVE DirsOfLen(_)
DirsOfLen(n) ==
    IF n = 0 THEN {<<>>}
    ELSE {Append(d, p) : d \in DirsOfLen(n - 1), p \in PackageChoices(n)}

AllDirs == DirsOfLen(NPkg)

\* the directories a menu session is checked on
RECURSIVE MenuDirsOfLen(_)
MenuDirsOfLen(n) ==
    IF n = 0 THEN {<<>>}
    ELSE {Append(d, p) : d \in MenuDirsOfLen(n - 1), p \in MenuChoices(n)}

MenuDirs == MenuDirsOfLen(NPkg)

(* ------------------------- discover_extensions ------------------------ *)

\* Caught without json.JSONDecodeError in the except clause
Caught_NoJson(e) == e \in {"IOError", "ImportError"}

\* the exceptions the except clause of the scan loop names
Caught(e) == e \in {"IOError", "JSONDecodeError", "ImportError"}

\* inspect.getmembers(module, predicate)[0][1]: members come sorted by name
FirstMember(classes) == IF "ExtA" \in classes THEN "ExtA" ELSE "ExtB"

\* the body of the try block for one package: the exception it raises, or "ok"
LoadOutcome(p) ==
    IF p.metadata_json = "unreadable" THEN "IOError"
    ELSE IF p.metadata_json = "malformed" THEN "JSONDecodeError"
    ELSE IF p.metadata_json = "no_section" THEN "AttributeError"
    ELSE IF p.import # "ok" THEN p.import
    ELSE IF p.classes = {} THEN "IndexError"
    ELSE IF p.ctor # "ok" THEN p.ctor
    ELSE "ok"

\* ext_class(metadata): the extension instance of a package
Instance(p) ==
    [dir      |-> p.name,
     class    |-> FirstMember(p.classes),
     metadata |-> [index |-> p.index, display_name |-> p.display_name]]

\* DictSet as d.setdefault(k, v): the first value under a key stays
DictSet_KeepFirst(d, k, v) ==
    IF \E n \in 1..Len(d) : d[n].k = k THEN d ELSE Append(d, [k |-> k, v |-> v])

\* d[k] = v on an insertion-ordered dict
DictSet(d, k, v) ==
    IF \E n \in 1..Len(d) : d[n].k = k
    THEN [n \in 1..Len(d) |-> IF d[n].k = k THEN [k |-> k, v |-> v] ELSE d[n]]
    ELSE Append(d, [k |-> k, v |-> v])

DictKeys(d) == {d[n].k : n \in 1..Len(d)}

DictGet(d, k) == (CHOOSE item \in Range(d) : item.k = k).v

\* list(d.values())
DictValues(d) == [n \in 1..Len(d) |-> d[n].v]

\* InsertByInt for sorted(..., reverse=True)
RECURSIVE InsertByInt_Desc(_, _)
InsertByInt_Desc(sorted, item) ==
    IF sorted = <<>> THEN <<item>>
    ELSE IF PyInt(sorted[Len(sorted)].k).value >= PyInt(item.k).value
         THEN Append(sorted, item)
         ELSE Append(InsertByInt_Desc(SubSeq(sorted, 1, Len(sorted) - 1), item),
                     sorted[Len(sorted)])

\* sorted(items, key=lambda x: int(x[0])): a stable sort
RECURSIVE InsertByInt(_, _)
InsertByInt(sorted, item) ==
    IF sorted = <<>> THEN <<item>>
    ELSE IF PyInt(sorted[Len(sorted)].k).value <= PyInt(item.k).value
         THEN Append(sorted, item)
         ELSE Append(InsertByInt(SubSeq(sorted, 1, Len(sorted) - 1), item),
                     sorted[Len(sorted)])

RECURSIVE SortedByInt(_)
SortedByInt(items) ==
    IF items = <<>> THEN <<>>
    ELSE InsertByInt(SortedByInt(SubSeq(items, 1, Len(items) - 1)), items[Len(items)])

\* the key function raises ValueError on a key that is not an integer
SortRaises(items) == \E n \in 1..Len(items) : ~PyInt(items[n].k).ok

(* ------------------------------- state -------------------------------- *)

VARIABLES
    pkgs,                 \* the subdirectories of EXTENSION_ROOT, in iterdir() order
    pc,                   \* "scan", "raised", "menu", "collecting", "parsing", "confirm",
                          \* "installing"
    scanned,              \* number of subdirectories the scan loop has handled
    ext_dict,             \* discover_extensions: ext_dict
    printed,              \* directories reported by "Failed loading extension ..."
    exc,                  \* the exception that left discover_extensions, or "none"
    extensions,           \* self.extensions
    selected_extensions,  \* bulk_install_extensions: selected_extensions
    selection,            \* bulk_install_extensions: the line read and not yet handled
                          \* (pc = "parsing"), <<>> otherwise
    answer,               \* what get_confirm returned: "none" before it is asked
    loop_exit,            \* the break that left the while loop: "none" while it runs,
                          \* "done" (line 110) or "all" (line 114)
    echoed,               \* the "Currently selected" list the last pass of the loop
                          \* printed, as <<list>>; <<>> when it printed none
    entered,              \* history: the registry keys entered on the lines handled
                          \* so far, each once, in order of first occurrence
    calls,                \* the calls made on extensions, with their outcome
    successful,           \* _install_selected_extensions: successful
    failed,               \* _install_selected_extensions: failed
    summary               \* the installation summary printed, <<>> before it is

loadVars == <<pkgs, scanned, ext_dict, printed, exc, extensions>>
bulkVars == <<selected_extensions, selection, answer, loop_exit, echoed, entered>>
batchVars == <<calls, successful, failed, summary>>
vars == <<pkgs, pc, scanned, ext_dict, printed, exc, extensions,
          selected_extensions, selection, answer, loop_exit, echoed, entered,
          calls, successful, failed, summary>>

\* one pass of the scan loop over package p, on the loop's locals
ScanStep(st, p) ==
    IF p.metadata_json = "absent" THEN st
    ELSE IF LoadOutcome(p) = "ok"
         THEN [st EXCEPT !.ext_dict = DictSet(st.ext_dict, FStr(p.index), Instance(p))]
         ELSE IF Caught(LoadOutcome(p))
              THEN [st EXCEPT !.printed = Append(st.printed, p.name)]
              ELSE [st EXCEPT !.exc = LoadOutcome(p)]

\* the scan loop over a whole directory
RECURSIVE ScanAll(_)
ScanAll(d) ==
    IF d = <<>> THEN [ext_dict |-> <<>>, printed |-> <<>>, exc |-> "none"]
    ELSE LET st == ScanAll(SubSeq(d, 1, Len(d) - 1))
         IN  IF st.exc # "none" THEN st ELSE ScanStep(st, d[Len(d)])

\* SortedRegistry without the sort: return ext_dict
SortedRegistry_Unsorted(d) == d

\* dict(sorted(ext_dict.items(), key=lambda x: int(x[0])))
SortedRegistry(d) == SortedByInt(d)

NoBatch ==
    /\ calls = <<>>
    /\ successful = 0
    /\ failed = <<>>
    /\ summary = <<>>

NoBulk ==
    /\ selected_extensions = <<>>
    /\ selection = <<>>
    /\ answer = "none"
    /\ loop_exit = "none"
    /\ echoed = <<>>
    /\ entered = <<>>

\* discover_extensions is about to scan a directory
InitLoad ==
    /\ pkgs \in AllDirs
    /\ pc = "scan"
    /\ scanned = 0
    /\ ext_dict = <<>>
    /\ printed = <<>>
    /\ exc = "none"
    /\ extensions = <<>>
    /\ NoBulk
    /\ NoBatch

\* ExtensionsMenu.__init__ has returned
Init ==
    /\ pkgs \in MenuDirs
    /\ pc = "menu"
    /\ scanned = Len(pkgs)
    /\ ext_dict = ScanAll(pkgs).ext_dict
    /\ printed = ScanAll(pkgs).printed
    /\ exc = "none"
    /\ extensions = SortedRegistry(ScanAll(pkgs).ext_dict)
    /\ NoBulk
    /\ NoBatch

(* --------------------- discover_extensions, stepwise ------------------ *)

Scanning == pc = "scan" /\ scanned < Len(pkgs)

CurrentPkg == pkgs[scanned + 1]

\* if not metadata_json.exists(): continue
SkipDirectory ==
    /\ Scanning
    /\ CurrentPkg.metadata_json = "absent"
    /\ scanned' = scanned + 1
    /\ UNCHANGED <<pkgs, pc, ext_dict, printed, exc, extensions>>
    /\ UNCHANGED bulkVars /\ UNCHANGED batchVars

\* the try block runs to its end
LoadExtension ==
    /\ Scanning
    /\ CurrentPkg.metadata_json # "absent"
    /\ LoadOutcome(CurrentPkg) = "ok"
    /\ ext_dict' = ScanStep([ext_dict |-> ext_dict, printed |-> printed, exc |-> exc],
                            CurrentPkg).ext_dict
    /\ scanned' = scanned + 1
    /\ UNCHANGED <<pkgs, pc, printed, exc, extensions>>
    /\ UNCHANGED bulkVars /\ UNCHANGED batchVars

\* the except clause catches the error and prints it
LoadFailed ==
    /\ Scanning
    /\ CurrentPkg.metadata_json # "absent"
    /\ LoadOutcome(CurrentPkg) # "ok"
    /\ Caught(LoadOutcome(CurrentPkg))
    /\ printed' = ScanStep([ext_dict |-> ext_dict, printed |-> printed, exc |-> exc],
                           CurrentPkg).printed
    /\ scanned' = scanned + 1
    /\ UNCHANGED <<pkgs, pc, ext_dict, exc, extensions>>
    /\ UNCHANGED bulkVars /\ UNCHANGED batchVars

\* an error the except clause does not name leaves discover_extensions
LoadRaised ==
    /\ Scanning
    /\ CurrentPkg.metadata_json # "absent"
    /\ LoadOutcome(CurrentPkg) # "ok"
    /\ ~Caught(LoadOutcome(CurrentPkg))
    /\ exc' = ScanStep([ext_dict |-> ext_dict, printed |-> printed, exc |-> exc],
                       CurrentPkg).exc
    /\ pc' = "raised"
    /\ UNCHANGED <<pkgs, scanned, ext_dict, printed, extensions>>
    /\ UNCHANGED bulkVars /\ UNCHANGED batchVars

\* return dict(sorted(...)), and __init__ stores it in self.extensions
ReturnRegistry ==
    /\ pc = "scan"
    /\ scanned = Len(pkgs)
    /\ ~SortRaises(ext_dict)
    /\ extensions' = SortedRegistry(ext_dict)
    /\ pc' = "menu"
    /\ UNCHANGED <<pkgs, scanned, ext_dict, printed, exc>>
    /\ UNCHANGED bulkVars /\ UNCHANGED batchVars

\* int(x[0]) raises ValueError inside sorted()
SortRaised ==
    /\ pc = "scan"
    /\ scanned = Len(pkgs)
    /\ SortRaises(ext_dict)
    /\ exc' = "ValueError"
    /\ pc' = "raised"
    /\ UNCHANGED <<pkgs, scanned, ext_dict, printed, extensions>>
    /\ UNCHANGED bulkVars /\ UNCHANGED batchVars

NextLoad ==
    \/ SkipDirectory
    \/ LoadExtension
    \/ LoadFailed
    \/ LoadRaised
    \/ ReturnRegistry
    \/ SortRaised

SpecLoad == InitLoad /\ [][NextLoad]_vars

(* ----------------------- bulk_install_extensions ---------------------- *)

\* the words an input line is made of
Tokens == {"1", "2", "3", "9", "done", "Done", "all", "ALL", "finish", "FINISH"}

\* str.lower() on a word
Lower(t) ==
    CASE t = "Done"   -> "done"
      [] t = "ALL"    -> "all"
      [] t = "FINISH" -> "finish"
      [] OTHER        -> t

\* the lines input() may return, stripped
Lines == SeqsUpTo(Tokens, MaxTokens)

\* selection.lower() == word
LineIs(line, word) == Len(line) = 1 /\ Lower(line[1]) = word

\* IsDone without lower()
IsDone_CaseSensitive(line) == line = <<"done">>

\* selection.lower() == 'done'
IsDone(line) == LineIs(line, "done")

\* IsAll without lower()
IsAll_CaseSensitive(line) == line = <<"all">>

\* selection.lower() == 'all'
IsAll(line) == LineIs(line, "all")

\* TempSelected with a break in the branch of an invalid word
RECURSIVE TempSelected_StopAtInvalid(_, _)
TempSelected_StopAtInvalid(reg, indices) ==
    IF indices = <<>> THEN <<>>
    ELSE IF \E n \in 1..Len(indices) : indices[n] \notin DictKeys(reg)
         THEN LET bad == CHOOSE n \in 1..Len(indices) :
                             /\ indices[n] \notin DictKeys(reg)
                             /\ \A m \in 1..(n - 1) : indices[m] \in DictKeys(reg)
              IN  TempSelected_StopAtInvalid(reg, SubSeq(indices, 1, bad - 1))
         ELSE LET temp == TempSelected_StopAtInvalid(reg, SubSeq(indices, 1, Len(indices) - 1))
                  ext  == DictGet(reg, indices[Len(indices)])
              IN  IF ext \notin Range(temp) THEN Append(temp, ext) ELSE temp

\* the for loop over indices, from the first word on: the value of temp_selected
RECURSIVE TempSelected(_, _)
TempSelected(reg, indices) ==
    IF indices = <<>> THEN <<>>
    ELSE LET temp == TempSelected(reg, SubSeq(indices, 1, Len(indices) - 1))
             idx  == indices[Len(indices)]
         IN  IF idx \in DictKeys(reg)
             THEN IF DictGet(reg, idx) \notin Range(temp)
                  THEN Append(temp, DictGet(reg, idx))
                  ELSE temp
             ELSE temp

\* Merge without the membership test
Merge_NoCheck(selected, temp) == selected \o temp

\* Merge that puts the new extensions in front of the accumulated ones
Merge_Prepend(selected, temp) ==
    SelectSeq(temp, LAMBDA e : e \notin Range(selected)) \o selected

\* for ext in temp_selected: if ext not in selected_extensions: append
RECURSIVE Merge(_, _)
Merge(selected, temp) ==
    IF temp = <<>> THEN selected
    ELSE LET sel == Merge(selected, SubSeq(temp, 1, Len(temp) - 1))
             ext == temp[Len(temp)]
         IN  IF ext \notin Range(sel) THEN Append(sel, ext) ELSE sel

\* the else branch of the loop body: selected_extensions after the line
ProcessLine(reg, selected, line) == Merge(selected, TempSelected(reg, line))

\* Echo of this line's batch in place of the accumulated selection
Echo_Temp(temp, selected) == IF temp # <<>> THEN <<temp>> ELSE <<>>

\* if temp_selected: ... print "Currently selected" and the list
Echo(temp, selected) == IF temp # <<>> THEN <<selected>> ELSE <<>>

\* history: seen, extended by the words of line that are in keys and not yet
\* seen, from left to right
RECURSIVE FirstOccurrences(_, _, _)
FirstOccurrences(seen, line, keys) ==
    IF line = <<>> THEN seen
    ELSE FirstOccurrences(IF Head(line) \in keys /\ Head(line) \notin Range(seen)
                          THEN Append(seen, Head(line))
                          ELSE seen,
                          Tail(line), keys)

\* the user picks "I) Bulk Install Extensions": the code up to the first input()
BulkInstallStart ==
    /\ pc = "menu"
    /\ pc' = "collecting"
    /\ selected_extensions' = <<>>
    /\ selection' = <<>>
    /\ answer' = "none"
    /\ loop_exit' = "none"
    /\ echoed' = <<>>
    /\ entered' = <<>>
    /\ calls' = <<>>
    /\ successful' = 0
    /\ failed' = <<>>
    /\ summary' = <<>>
    /\ UNCHANGED loadVars

\* where the code after the loop goes with the selection sel: it returns to
\* the menu on an empty one and asks for confirmation otherwise
AfterLoop(sel) == IF sel = <<>> THEN "menu" ELSE "confirm"

\* input() returns a line, stripped
ReadLine ==
    /\ pc = "collecting"
    /\ \E line \in Lines : selection' = line
    /\ pc' = "parsing"
    /\ echoed' = <<>>
    /\ UNCHANGED <<selected_extensions, answer, loop_exit, entered>>
    /\ UNCHANGED loadVars /\ UNCHANGED batchVars

\* the line is 'done': break
ReadDone ==
    /\ pc = "parsing"
    /\ IsDone(selection)
    /\ pc' = AfterLoop(selected_extensions)
    /\ selection' = <<>>
    /\ loop_exit' = "done"
    /\ UNCHANGED <<selected_extensions, answer, echoed, entered>>
    /\ UNCHANGED loadVars /\ UNCHANGED batchVars

\* SelectAll that adds the missing extensions to the accumulated selection
SelectAll_Extend(reg, selected) == Merge(selected, DictValues(reg))

\* the value 'all' gives to selected_extensions
SelectAll(reg, selected) == DictValues(reg)

\* the line is 'all': select every extension and break
ReadAll ==
    /\ pc = "parsing"
    /\ ~IsDone(selection)
    /\ IsAll(selection)
    /\ selected_extensions' = SelectAll(extensions, selected_extensions)
    /\ pc' = AfterLoop(selected_extensions')
    /\ selection' = <<>>
    /\ loop_exit' = "all"
    /\ UNCHANGED <<answer, echoed, entered>>
    /\ UNCHANGED loadVars /\ UNCHANGED batchVars

\* ReadSelection that takes the selected extensions out of self.extensions
ReadSelection_Pop ==
    /\ pc = "parsing"
    /\ ~IsDone(selection)
    /\ ~IsAll(selection)
    /\ selected_extensions' = ProcessLine(extensions, selected_extensions, selection)
    /\ extensions' = SelectSeq(extensions, LAMBDA item : item.k \notin Range(selection))
    /\ echoed' = Echo(TempSelected(extensions, selection), selected_extensions')
    /\ entered' = FirstOccurrences(entered, selection, DictKeys(extensions))
    /\ pc' = "collecting"
    /\ selection' = <<>>
    /\ UNCHANGED <<answer, loop_exit>>
    /\ UNCHANGED <<pkgs, scanned, ext_dict, printed, exc>> /\ UNCHANGED batchVars

\* any other line: parse the individual selections and prompt again
ReadSelection ==
    /\ pc = "parsing"
    /\ ~IsDone(selection)
    /\ ~IsAll(selection)
    /\ selected_extensions' = ProcessLine(extensions, selected_extensions, selection)
    /\ echoed' = Echo(TempSelected(extensions, selection), selected_extensions')
    /\ entered' = FirstOccurrences(entered, selection, DictKeys(extensions))
    /\ pc' = "collecting"
    /\ selection' = <<>>
    /\ UNCHANGED <<answer, loop_exit>>
    /\ UNCHANGED loadVars /\ UNCHANGED batchVars

(* -------------------- _install_selected_extensions -------------------- *)

\* ItemAt over reversed(extensions)
ItemAt_Reversed(exts, n) == exts[Len(exts) + 1 - n]

\* the item the n-th pass of the for loop installs
ItemAt(exts, n) == exts[n]

\* extension.install_extension() is entered for the n-th item
BeginInstall(n) ==
    Append(calls, [ext |-> ItemAt(selected_extensions, n), action |-> "install",
                   result |-> "running"])

\* the call that is running, closed with its outcome
EndInstall(result) == [calls EXCEPT ![Len(calls)].result = result]

\* get_confirm returns True: the batch starts and enters the first install
ConfirmYes ==
    /\ pc = "confirm"
    /\ answer' = "yes"
    /\ successful' = 0
    /\ failed' = <<>>
    /\ calls' = BeginInstall(1)
    /\ pc' = "installing"
    /\ UNCHANGED <<selected_extensions, selection, loop_exit, echoed, entered, summary>>
    /\ UNCHANGED loadVars

\* ConfirmNo with the test of get_confirm's result dropped
ConfirmNo_Installs ==
    /\ pc = "confirm"
    /\ answer' = "no"
    /\ successful' = 0
    /\ failed' = <<>>
    /\ calls' = BeginInstall(1)
    /\ pc' = "installing"
    /\ UNCHANGED <<selected_extensions, selection, loop_exit, echoed, entered, summary>>
    /\ UNCHANGED loadVars

\* get_confirm returns False: "Installation cancelled."
ConfirmNo ==
    /\ pc = "confirm"
    /\ answer' = "no"
    /\ pc' = "menu"
    /\ UNCHANGED <<selected_extensions, selection, loop_exit, echoed, entered>>
    /\ UNCHANGED loadVars /\ UNCHANGED batchVars

\* the rest of the for loop after the running call is over, with the counters
\* succ and fail: the next install is entered, or the summary is printed
Proceed(done, succ, fail) ==
    IF Len(done) < Len(selected_extensions)
    THEN /\ calls' = Append(done, [ext |-> ItemAt(selected_extensions, Len(done) + 1),
                                   action |-> "install",
                                   result |-> "running"])
         /\ pc' = "installing"
         /\ summary' = summary
    ELSE /\ calls' = done
         /\ pc' = "menu"
         /\ summary' = <<[total |-> Len(selected_extensions),
                          successful |-> succ,
                          failed |-> fail]>>

\* install_extension() returns
InstallReturns ==
    /\ pc = "installing"
    /\ successful' = successful + 1
    /\ failed' = failed
    /\ Proceed(EndInstall("ok"), successful', failed')
    /\ UNCHANGED bulkVars
    /\ UNCHANGED loadVars

\* InstallRaises with the try around the whole loop: the first error ends it
InstallRaises_EarlyExit ==
    /\ pc = "installing"
    /\ successful' = successful
    /\ failed' = Append(failed, calls[Len(calls)].ext.metadata.display_name)
    /\ calls' = EndInstall("raised")
    /\ pc' = "menu"
    /\ summary' = <<[total |-> Len(selected_extensions),
                     successful |-> successful',
                     failed |-> failed']>>
    /\ UNCHANGED bulkVars
    /\ UNCHANGED loadVars

\* InstallRaises with one more attempt on an item whose install raised
InstallRaises_Retry ==
    /\ pc = "installing"
    /\ successful' = successful
    /\ IF Cardinality({n \in 1..Len(calls) : calls[n].ext = calls[Len(calls)].ext}) = 1
       THEN /\ failed' = failed
            /\ calls' = Append(EndInstall("raised"),
                               [calls[Len(calls)] EXCEPT !.result = "running"])
            /\ pc' = "installing"
            /\ summary' = summary
       ELSE /\ failed' = Append(failed, calls[Len(calls)].ext.metadata.display_name)
            /\ Proceed(EndInstall("raised"), successful', failed')
    /\ UNCHANGED bulkVars
    /\ UNCHANGED loadVars

\* install_extension() raises an Exception, which the loop catches
InstallRaises ==
    /\ pc = "installing"
    /\ successful' = successful
    /\ failed' = Append(failed, calls[Len(calls)].ext.metadata.display_name)
    /\ Proceed(EndInstall("raised"), successful', failed')
    /\ UNCHANGED bulkVars
    /\ UNCHANGED loadVars

Next ==
    \/ BulkInstallStart
    \/ ReadLine
    \/ ReadDone
    \/ ReadAll
    \/ ReadSelection
    \/ ConfirmYes
    \/ ConfirmNo
    \/ InstallReturns
    \/ InstallRaises

Spec == Init /\ [][Next]_vars

(* -------------------- properties of discover_extensions --------------- *)

HasMetadata(p) == p.metadata_json # "absent"

\* a step of loading p fails
LoadFails(p) == HasMetadata(p) /\ LoadOutcome(p) # "ok"

\* p loads: every step of the try block succeeds
Loads(p) == HasMetadata(p) /\ LoadOutcome(p) = "ok"

\* the registry holds an instance of the package in directory n
InRegistry(n) == \E m \in 1..Len(extensions) : extensions[m].v.dir = pkgs[n].name

\* no other package that loads declares the key of package n
KeyIsOwn(n) ==
    \A m \in 1..Len(pkgs) :
        (m # n /\ Loads(pkgs[m])) => FStr(pkgs[m].index) # FStr(pkgs[n].index)

Ascending(reg) ==
    \A a, b \in 1..Len(reg) : a < b => PyInt(reg[a].k).value <= PyInt(reg[b].k).value

\* C2: whatever step of loading a package fails, discover_extensions does not
\* raise; it reports the package, goes on, and returns a registry with every
\* other package that loads and without the failed one.  (The ValueError of
\* the final sort is the subject of C4 and is left out here.)
C2_LoadFailureIsolated ==
    /\ ~(pc = "raised" /\ exc # "ValueError")
    /\ pc = "menu" =>
          \A n \in 1..Len(pkgs) :
              /\ LoadFails(pkgs[n]) =>
                     /\ ~InRegistry(n)
                     /\ pkgs[n].name \in Range(printed)
              /\ (Loads(pkgs[n]) /\ KeyIsOwn(n)) => InRegistry(n)

\* C3: a package whose module has zero, or two or more, concrete subclasses of
\* BaseExtension is a failed load: it is reported like one, it is absent from
\* the registry, and none of several candidates is picked.
C3_AmbiguousTypeExcluded ==
    /\ ~(pc = "raised" /\ exc = "IndexError")
    /\ pc = "menu" =>
          \A n \in 1..Len(pkgs) :
              (HasMetadata(pkgs[n]) /\ Cardinality(pkgs[n].classes) # 1)
                  => ~InRegistry(n)

\* C4: a package without an index convertible to an integer fails alone:
\* discover_extensions returns, the registry omits the package and holds every
\* other loaded package in ascending numeric key order.
C4_BadIndexIsolated ==
    /\ ~(pc = "raised" /\ exc = "ValueError")
    /\ pc = "menu" =>
          /\ Ascending(extensions)
          /\ \A n \in 1..Len(pkgs) :
                 /\ (Loads(pkgs[n]) /\ ~PyInt(FStr(pkgs[n].index)).ok) => ~InRegistry(n)
                 /\ (Loads(pkgs[n]) /\ PyInt(FStr(pkgs[n].index)).ok /\ KeyIsOwn(n))
                        => InRegistry(n)

(* ------------------- properties of the batch executor ----------------- *)

\* the executor has run to its summary
BatchDone == summary # <<>>

\* the positions of the batch whose install raised
FailedPositions == {n \in 1..Len(calls) : calls[n].result = "raised"}

\* the display names of the items of exts at the positions in F, in order
RECURSIVE NamesAt(_, _)
NamesAt(exts, F) ==
    IF exts = <<>> THEN <<>>
    ELSE LET front == NamesAt(SubSeq(exts, 1, Len(exts) - 1), F)
         IN  IF Len(exts) \in F
             THEN Append(front, exts[Len(exts)].metadata.display_name)
             ELSE front

\* C1: for a selection of N >= 1 items of which those at the positions F raise,
\* install is attempted on all N items, the success count is N - |F|, and the
\* failure list is the display names of the items at F in sequence order.
C1_BatchIsolatesFailures ==
    BatchDone =>
        /\ Len(selected_extensions) >= 1
        /\ Len(calls) = Len(selected_extensions)
        /\ \A n \in 1..Len(calls) :
               calls[n].ext = selected_extensions[n] /\ calls[n].result # "running"
        /\ summary[1].total = Len(selected_extensions)
        /\ summary[1].successful = Len(selected_extensions) - Cardinality(FailedPositions)
        /\ summary[1].failed = NamesAt(selected_extensions, FailedPositions)

\* a batch of three whose first and last installs raised
C1_Witness ==
    /\ BatchDone
    /\ Len(selected_extensions) = 3
    /\ FailedPositions = {1, 3}

\* C5: the installs of a batch run in the order of the selection, one at a
\* time: the call on item n is over before the call on item n + 1 is entered.
C5_SequentialInOrder ==
    /\ Len(calls) <= Len(selected_extensions)
    /\ \A n \in 1..Len(calls) : calls[n].ext = selected_extensions[n]
    /\ \A n \in 1..(Len(calls) - 1) : calls[n].result # "running"
    /\ pc = "installing" <=> (calls # <<>> /\ calls[Len(calls)].result = "running")

\* the third install of a selection that is not in registry order is running
C5_Witness ==
    /\ pc = "installing"
    /\ Len(calls) = 3
    /\ selected_extensions # DictValues(extensions)
    /\ calls[1].result = "raised"

(* ------------------- properties of the selection loop ----------------- *)

\* C6: no install is invoked unless the loop ended with a non-empty selection
\* and the user then answered yes; with an empty selection no confirmation is
\* asked, nothing runs and the operation returns; on no, nothing runs.
C6_ConfirmGatesInstall ==
    /\ calls # <<>> => (answer = "yes" /\ selected_extensions # <<>>)
    /\ answer = "no" => (calls = <<>> /\ summary = <<>> /\ pc = "menu")
    /\ selected_extensions = <<>> =>
           /\ answer = "none"
           /\ calls = <<>>
           /\ pc \in {"menu", "collecting", "parsing"}

\* the user declined the installation of a non-empty selection
C6_Witness ==
    /\ pc = "menu"
    /\ answer = "no"
    /\ selected_extensions # <<>>
    /\ calls = <<>>

\* the loop is over: the code after it runs
LoopEnded == pc \in {"menu", "confirm"}

\* C7 as stated: the line "finish", in any letter case, ends the loop with the
\* selection accumulated so far, unchanged.
C7_FinishEndsLoop ==
    [][(pc = "parsing" /\ LineIs(selection, "finish"))
          => (LoopEnded' /\ selected_extensions' = selected_extensions)]_vars

\* C7 as amended: the line "done", in any letter case, ends the loop with the
\* selection accumulated so far, unchanged and possibly empty.
C7_DoneEndsLoop ==
    [][(pc = "parsing" /\ LineIs(selection, "done"))
          => (LoopEnded' /\ selected_extensions' = selected_extensions)]_vars

\* "Done" is entered after two extensions have been selected
C7_Witness ==
    /\ pc = "parsing"
    /\ selection = <<"Done">>
    /\ Len(selected_extensions) = 2

\* C8: "all", in any letter case and after any earlier lines, ends the loop
\* with a selection of every registry entry once, in registry order, which is
\* the ascending numeric order of the keys.
C8_AllSelectsRegistry ==
    [][(pc = "parsing" /\ LineIs(selection, "all"))
          => /\ LoopEnded'
             /\ Len(selected_extensions') = Len(extensions)
             /\ \A n \in 1..Len(extensions) : selected_extensions'[n] = extensions[n].v
             /\ \A a, b \in 1..Len(extensions) :
                    a < b => PyInt(extensions[a].k).value < PyInt(extensions[b].k).value]_vars

\* "ALL" is entered when the selection so far starts with the registry's last entry
C8_Witness ==
    /\ pc = "parsing"
    /\ selection = <<"ALL">>
    /\ Len(extensions) = 3
    /\ selected_extensions # <<>>
    /\ selected_extensions[1] = extensions[3].v

NoDuplicates(s) == \A a, b \in 1..Len(s) : a # b => s[a] # s[b]

\* C9: the selection never holds an extension instance twice, however often a
\* valid key is repeated on one line or across lines.
C9_NoDuplicateSelection == NoDuplicates(selected_extensions)

\* the key of an extension that an earlier line selected is entered again,
\* twice on one line
C9_Witness ==
    /\ pc = "parsing"
    /\ Len(selection) >= 2
    /\ selection[1] = selection[2]
    /\ selection[1] \in DictKeys(extensions)
    /\ DictGet(extensions, selection[1]) \in Range(selected_extensions)

\* the words of a line that are registry keys, in order
ValidOnly(reg, line) == SelectSeq(line, LAMBDA t : t \in DictKeys(reg))

IsCommand(line) == LineIs(line, "done") \/ LineIs(line, "all")

\* C10: a word that is no registry key neither changes the selection nor ends
\* the loop, and the other words of its line are handled as if it were absent.
C10_InvalidTokenIgnored ==
    [][(pc = "parsing" /\ ~IsCommand(selection))
          => /\ pc' = "collecting"
             /\ selected_extensions' =
                    ProcessLine(extensions, selected_extensions,
                                ValidOnly(extensions, selection))
             /\ (ValidOnly(extensions, selection) = <<>>
                    => selected_extensions' = selected_extensions)]_vars

\* a line whose first word is no key and whose later word is the key of an
\* extension not yet selected
C10_Witness ==
    /\ pc = "parsing"
    /\ ~IsCommand(selection)
    /\ \E a, b \in 1..Len(selection) :
          /\ a < b
          /\ selection[a] \notin DictKeys(extensions)
          /\ selection[b] \in DictKeys(extensions)
          /\ DictGet(extensions, selection[b]) \notin Range(selected_extensions)

\* the instances the registry holds under the keys of a sequence
InstancesOf(reg, keys) == [n \in 1..Len(keys) |-> DictGet(reg, keys[n])]

\* C11: when the done command ends the loop, the selection is the distinct
\* valid keys entered, in the order of their first occurrence over all lines.
C11_FirstOccurrenceOrder ==
    loop_exit = "done" => selected_extensions = InstancesOf(extensions, entered)

\* with the keys 1, 2, 3 the lines "2 3" and "1" were entered, then done
C11_Witness ==
    /\ loop_exit = "done"
    /\ DictKeys(extensions) = {"1", "2", "3"}
    /\ entered = <<"2", "3", "1">>
    /\ pc = "confirm"

\* C15: the loop leaves collecting only by the done command (finished) or the
\* all command (all selected); any other line, an empty one and one of
\* unknown words included, returns to collecting and prompts again.
C15_LoopExits ==
    [][/\ pc = "collecting" => (pc' = "parsing" /\ loop_exit' = "none")
       /\ pc = "parsing" =>
             /\ loop_exit = "none"
             /\ LineIs(selection, "done") => (LoopEnded' /\ loop_exit' = "done")
             /\ LineIs(selection, "all") => (LoopEnded' /\ loop_exit' = "all")
             /\ ~IsCommand(selection) => (pc' = "collecting" /\ loop_exit' = "none")]_vars

\* an empty line is entered after something has been selected
C15_Witness ==
    /\ pc = "parsing"
    /\ selection = <<>>
    /\ selected_extensions # <<>>
    /\ loop_exit = "none"

\* C16 as stated: after every line that is no command the full selection is
\* echoed, also when the line added nothing.
C16_EchoAfterEveryLine ==
    [][(pc = "parsing" /\ ~IsCommand(selection))
          => echoed' = <<selected_extensions'>>]_vars

\* C16 as amended: after a line that is no command the full selection is
\* echoed if and only if the line holds a registry key, also when every key of
\* the line was selected before; a line of unknown words only, or of no
\* words, echoes nothing.
C16_EchoWhenKeyEntered ==
    [][(pc = "parsing" /\ ~IsCommand(selection))
          => echoed' = IF \E n \in 1..Len(selection) : selection[n] \in DictKeys(extensions)
                       THEN <<selected_extensions'>>
                       ELSE <<>>]_vars

\* a line of keys that are all selected already, while more is selected
C16_Witness ==
    /\ pc = "parsing"
    /\ selection # <<>>
    /\ Len(selected_extensions) = 2
    /\ \A n \in 1..Len(selection) :
          /\ selection[n] \in DictKeys(extensions)
          /\ DictGet(extensions, selection[n]) = selected_extensions[2]

(* ---------------- more properties of discover_extensions -------------- *)

\* p loads and its module holds exactly one extension class
WellFormed(p) == Loads(p) /\ Cardinality(p.classes) = 1

\* p is well formed and declares an integer index
Valid(p) == WellFormed(p) /\ PyInt(FStr(p.index)).ok

\* the directories that hold a metadata document
Packages == {n \in 1..Len(pkgs) : HasMetadata(pkgs[n])}

\* the registry holds the instance of package n under the key n declares
RegisteredUnderKey(n) ==
    \E m \in 1..Len(extensions) :
        extensions[m].k = FStr(pkgs[n].index) /\ extensions[m].v = Instance(pkgs[n])

\* C12: N packages that all load and declare N pairwise distinct keys give a
\* registry of exactly N entries in ascending numeric key order, whatever
\* the order of the scan.
C12_DistinctKeysAllRegistered ==
    (\A n \in Packages : Valid(pkgs[n]) /\ KeyIsOwn(n)) =>
        /\ pc # "raised"
        /\ pc = "menu" =>
              /\ Len(extensions) = Cardinality(Packages)
              /\ Ascending(extensions)
              /\ \A n \in Packages : RegisteredUnderKey(n)

\* three packages scanned in descending key order
C12_Witness ==
    /\ pc = "menu"
    /\ Cardinality(Packages) = 3
    /\ \A n \in Packages : Valid(pkgs[n]) /\ KeyIsOwn(n)
    /\ FStr(pkgs[1].index) = "3"
    /\ FStr(pkgs[2].index) = "2"
    /\ FStr(pkgs[3].index) = "01"

\* the metadata document of p cannot be read or is no JSON
BadDocument(p) == p.metadata_json \in {"unreadable", "malformed"}

ScanOrders(n) == {f \in [1..n -> 1..n] : \A a, b \in 1..n : a # b => f[a] # f[b]}

\* the directory d as a scan in the order f enumerates it
Reordered(d, f) == [n \in 1..Len(d) |-> d[f[n]]]

\* the keys of a registry in iteration order
KeySeq(reg) == [n \in 1..Len(reg) |-> reg[n].k]

\* a second run of discover_extensions on directory d returns
Returns(d) == ScanAll(d).exc = "none" /\ ~SortRaises(ScanAll(d).ext_dict)

\* the registry a second run of discover_extensions on directory d returns
Rediscovered(d) == SortedRegistry(ScanAll(d).ext_dict)

\* no two keys of the registry denote the same integer
NoTies(reg) ==
    \A a, b \in 1..Len(reg) : a # b => PyInt(reg[a].k).value # PyInt(reg[b].k).value

\* C14 as stated: a second discovery of the same packages gives the same key
\* set and the same iteration order, in whatever order each scan enumerates
\* the subdirectories, also when the keys "1" and "01" are both declared.
C14_RediscoverySameOrder ==
    pc = "menu" =>
        \A f \in ScanOrders(Len(pkgs)) :
            /\ Returns(Reordered(pkgs, f))
            /\ DictKeys(Rediscovered(Reordered(pkgs, f))) = DictKeys(extensions)
            /\ KeySeq(Rediscovered(Reordered(pkgs, f))) = KeySeq(extensions)

\* C14 as amended: a second discovery gives the same key set in whatever
\* order the scans enumerate, and the same iteration order when the scans
\* enumerate in the same order or no two keys denote the same integer.
C14_RediscoverySameKeys ==
    pc = "menu" =>
        \A f \in ScanOrders(Len(pkgs)) :
            /\ Returns(Reordered(pkgs, f))
            /\ DictKeys(Rediscovered(Reordered(pkgs, f))) = DictKeys(extensions)
            /\ (NoTies(extensions) \/ Reordered(pkgs, f) = pkgs)
                   => KeySeq(Rediscovered(Reordered(pkgs, f))) = KeySeq(extensions)

\* a registry with three integer values, scanned out of order, was returned
C14_Witness ==
    /\ pc = "menu"
    /\ Len(extensions) = 3
    /\ NoTies(extensions)
    /\ KeySeq(ext_dict) # KeySeq(extensions)

\* C17: of two loaded packages with the same key the registry holds one entry
\* under the key, the instance of the package scanned later; the earlier one
\* is absent and nothing is raised or reported.
C17_LastWriterWins ==
    pc = "menu" =>
        \A a, b \in 1..Len(pkgs) :
            (/\ a < b
             /\ Loads(pkgs[a])
             /\ Loads(pkgs[b])
             /\ FStr(pkgs[a].index) = FStr(pkgs[b].index)
             /\ \A later \in (b + 1)..Len(pkgs) :
                    Loads(pkgs[later]) => FStr(pkgs[later].index) # FStr(pkgs[b].index))
            => /\ Cardinality({m \in 1..Len(extensions) :
                                  extensions[m].k = FStr(pkgs[b].index)}) = 1
               /\ RegisteredUnderKey(b)
               /\ ~InRegistry(a)
               /\ pkgs[a].name \notin Range(printed)
               /\ pkgs[b].name \notin Range(printed)

\* the first two packages declare the key 2, the third the key 1
C17_Witness ==
    /\ pc = "menu"
    /\ \A n \in 1..Len(pkgs) : Valid(pkgs[n])
    /\ FStr(pkgs[1].index) = "2"
    /\ FStr(pkgs[2].index) = "2"
    /\ FStr(pkgs[3].index) = "1"

(* ----------------- more properties of the bulk workflow ---------------- *)

\* the calls made on extension e
CallsOn(e) == {n \in 1..Len(calls) : calls[n].ext = e}

\* C18: a batch invokes install exactly once on each item of the selection,
\* an item whose install raised included, and the workflow invokes no update
\* or remove and nothing on an extension outside the selection.
C18_InstallOncePerItem ==
    /\ \A n \in 1..Len(calls) :
           /\ calls[n].action = "install"
           /\ calls[n].ext \in Range(selected_extensions)
           /\ Cardinality(CallsOn(calls[n].ext)) = 1
    /\ BatchDone => \A e \in Range(selected_extensions) : Cardinality(CallsOn(e)) = 1

\* a batch of two whose first install raised has run to its summary while the
\* registry holds a third extension, which was not selected
C18_Witness ==
    /\ BatchDone
    /\ Len(selected_extensions) = 2
    /\ Len(extensions) = 3
    /\ FailedPositions = {1}

\* C19: after discover_extensions has returned, no step of the selection loop
\* or of the batch executor changes the registry: its keys, its instances and
\* its iteration order stay as they are.
C19_RegistryReadOnly ==
    [][extensions' = extensions /\ extensions = SortedRegistry(ScanAll(pkgs).ext_dict)]_vars

\* a batch in which every install raised has ended, after lines were entered
C19_Witness ==
    /\ pc = "menu"
    /\ BatchDone
    /\ entered # <<>>
    /\ Len(calls) = 2
    /\ FailedPositions = {1, 2}

====
